---------------------------- MODULE Spec2Model ----------------------------
(***************************************************************************)
(* Model of the offline QR token generator of the employee app             *)
(* (src/src/utils/qrGenerator.ts, class OfflineQRGenerator) together with  *)
(* the asynchronous platform services it awaits: AsyncStorage (one FIFO    *)
(* queue of getItem/setItem/removeItem requests), fetch (the key sync      *)
(* endpoint) and expo-crypto (random bytes, SHA-256 digest).               *)
(*                                                                         *)
(* JavaScript runs the generator on one thread: every action below is one  *)
(* run-to-completion segment of a method, from its entry or from the       *)
(* resumption of an await to the next await or return.                     *)
(*                                                                         *)
(* Strings that are concatenated or hashed are sequences of symbols;       *)
(* SHA-256 and base64 are free (injective) constructors.  The crypto       *)
(* primitives are taken to be total: getRandomBytesAsync and               *)
(* digestStringAsync always resolve.                                       *)
(***************************************************************************)
EXTENDS Integers, Sequences, FiniteSets, TLC

VARIABLES
    now,            \* Date.now(), in abstract milliseconds
    keys,           \* this.keys
    employeeId,     \* this.employeeId
    deviceKey,      \* this.deviceKey
    lastSync,       \* this.lastSync
    stored,         \* the AsyncStorage item "qr_keys"
    storageQ,       \* AsyncStorage requests issued and not yet completed (FIFO)
    syncs,          \* the syncKeys calls the model follows, by slot
    mint,           \* the generateOfflineQR call
    clearCall,      \* the clearStorage call: "idle", "pending", "resolved", "rejected"
    polled,         \* what the latest hasValidKeys() call returned
    mintCall,       \* history: the store as it was when the generateOfflineQR call began
    justSetDeviceKey, \* history: setDeviceKey has just returned, nothing ran since
    calls,          \* history: number of generator calls the model still allows
    instance,       \* history: number of generator instances constructed so far
    status,         \* what the latest getStatus() call returned, <<>> before any
    screen          \* the attendance screen: its React state, the session of the
                    \* auth context, the screen-capture switch, its handlers in flight

vars == <<now, keys, employeeId, deviceKey, lastSync, stored, storageQ, syncs,
          mint, clearCall, polled, mintCall, justSetDeviceKey, calls, instance,
          status, screen>>

\* The in-memory key bundle and the key store (bundle plus persistence).
bundle == <<keys, employeeId, deviceKey, lastSync>>
store == <<keys, employeeId, deviceKey, lastSync, stored, storageQ>>

---------------------------------------------------------------------------
(* Bounds of the model *)

MaxTime == 2
MaxKeys == 2
MaxCalls == 2

---------------------------------------------------------------------------
(* Values *)

\* 30 * 1000 in generateOfflineQR
QR_EXPIRY_MS == 30000

\* Two of the four action types TIME_IN, BREAK_IN, BREAK_OUT, TIME_OUT.
ActionTypes == {"TIME_IN", "TIME_OUT"}

\* Two signing keys with overlapping windows; the later window has the lower hourIndex.
KeyA == [timestamp |-> 0, key |-> "ka", validFrom |-> 0, validTo |-> 1, hourIndex |-> 1]
KeyB == [timestamp |-> 0, key |-> "kb", validFrom |-> 1, validTo |-> 2, hourIndex |-> 0]
KeyUniverse == {KeyA, KeyB}

\* The key arrays a response can carry: up to MaxKeys keys, none twice.
KeySeqs ==
    {ks \in UNION {[1..n -> KeyUniverse] : n \in 0..MaxKeys} :
        \A i, j \in 1..Len(ks) : ks[i] = ks[j] => i = j}

\* Arguments of setEmployeeId and setDeviceKey; the server's employee ids.
EmployeeIds == {"", "E2"}
DeviceKeys == {"", "D2"}
Nonces == {"n1", "n2"}

---------------------------------------------------------------------------
(* JavaScript helpers *)

\* !!s for a string: the empty string is falsy.
TruthyStr(s) == s # ""

\* x || d for a number: 0 is falsy.
OrNum(x, d) == IF x # 0 THEN x ELSE d

\* Mutant: the upper end of the window is not checked.
KeyValidAt_NoUpperEnd(key, t) == t >= key.validFrom

\* The predicate of keys.find / keys.filter: now >= key.validFrom && now <= key.validTo
KeyValidAt(key, t) == t >= key.validFrom /\ t <= key.validTo

\* Mutant: the last element that satisfies the predicate.
RECURSIVE FindValidKey_Last(_, _)
FindValidKey_Last(ks, t) ==
    IF ks = <<>> THEN <<>>
    ELSE IF KeyValidAt(ks[Len(ks)], t) THEN <<ks[Len(ks)]>>
    ELSE FindValidKey_Last(SubSeq(ks, 1, Len(ks) - 1), t)

\* Array.prototype.find: the first element that satisfies the predicate, as a
\* sequence of length 1, or the empty sequence for undefined.
RECURSIVE FindValidKey(_, _)
FindValidKey(ks, t) ==
    IF ks = <<>> THEN <<>>
    ELSE IF KeyValidAt(Head(ks), t) THEN <<Head(ks)>>
    ELSE FindValidKey(Tail(ks), t)

\* Array.prototype.filter with the same predicate.
RECURSIVE FilterValidKeys(_, _)
FilterValidKeys(ks, t) ==
    IF ks = <<>> THEN <<>>
    ELSE IF KeyValidAt(Head(ks), t) THEN <<Head(ks)>> \o FilterValidKeys(Tail(ks), t)
    ELSE FilterValidKeys(Tail(ks), t)

\* JSON.stringify of an object, given as its sequence of <<name, value>> pairs
\* in insertion order: the names and values in that order, between braces.
RECURSIVE FlattenPairs(_)
FlattenPairs(pairs) ==
    IF pairs = <<>> THEN <<>>
    ELSE <<Head(pairs)[1], Head(pairs)[2]>> \o FlattenPairs(Tail(pairs))

JSONStringifyObject(pairs) == <<"{">> \o FlattenPairs(pairs) \o <<"}">>

\* Crypto.digestStringAsync(SHA256, s, HEX): a free constructor.
SHA256Hex(str) == <<"sha256">> \o str


\* btoa
Btoa(str) == <<"b64">> \o str

\* The return values of generateOfflineQR: null, or a base64 string.
Null == [isNull |-> TRUE, b64 |-> <<>>]
Token(b) == [isNull |-> FALSE, b64 |-> b]

---------------------------------------------------------------------------
(* Persistence values *)

\* The AsyncStorage item: absent, a string that is not JSON, or the JSON text of a record.
NoItem == [kind |-> "none", value |-> <<>>]
CorruptItem == [kind |-> "corrupt", value |-> <<>>]

\* JSON text as its sequence of tokens: punctuation, strings (property names
\* and string values) and numbers.
Punct(c) == [t |-> "punct", s |-> c, n |-> 0]
Str(str) == [t |-> "string", s |-> str, n |-> 0]
Num(num) == [t |-> "number", s |-> "", n |-> num]

\* JSON.stringify of a QRKey: its properties in insertion order; hourIndex is
\* optional and a property that is absent is not written.
JSONStringifyKey(k) ==
    <<Punct("{"), Str("timestamp"), Num(k.timestamp), Str("key"), Str(k.key),
      Str("validFrom"), Num(k.validFrom), Str("validTo"), Num(k.validTo)>>
    \o (IF "hourIndex" \in DOMAIN k THEN <<Str("hourIndex"), Num(k.hourIndex)>> ELSE <<>>)
    \o <<Punct("}")>>

RECURSIVE JSONStringifyKeys(_)
JSONStringifyKeys(ks) ==
    IF ks = <<>> THEN <<>> ELSE JSONStringifyKey(Head(ks)) \o JSONStringifyKeys(Tail(ks))

\* JSON.stringify(dataToSave) in saveToStorage.
JSONStringifyRecord(rec) ==
    [kind |-> "json",
     value |-> <<Punct("{"), Str("keys"), Punct("[")>> \o JSONStringifyKeys(rec.keys)
               \o <<Punct("]"), Str("employeeId"), Str(rec.employeeId),
                    Str("deviceKey"), Str(rec.deviceKey),
                    Str("lastSync"), Num(rec.lastSync), Punct("}")>>]

\* JSON.parse: a value that starts at token i of text, and the index after it.
\* An object is the function from its property names to their values, an
\* array the sequence of its elements.
RECURSIVE ParseValue(_, _), ParseMembers(_, _, _), ParseElements(_, _, _)
ParseValue(text, i) ==
    IF text[i].t = "number" THEN [value |-> text[i].n, next |-> i + 1]
    ELSE IF text[i].t = "string" THEN [value |-> text[i].s, next |-> i + 1]
    ELSE IF text[i].s = "{" THEN ParseMembers(text, i + 1, <<>>)
    ELSE ParseElements(text, i + 1, <<>>)

ParseMembers(text, i, obj) ==
    IF text[i] = Punct("}") THEN [value |-> obj, next |-> i + 1]
    ELSE LET v == ParseValue(text, i + 1)
         IN ParseMembers(text, v.next, (text[i].s :> v.value) @@ obj)

ParseElements(text, i, arr) ==
    IF text[i] = Punct("]") THEN [value |-> arr, next |-> i + 1]
    ELSE LET v == ParseValue(text, i)
         IN ParseElements(text, v.next, Append(arr, v.value))

JSONParse(text) == ParseValue(text, 1).value

\* obj[name], with d for the undefined of an absent property.
Prop(obj, name, d) == IF name \in DOMAIN obj THEN obj[name] ELSE d

\* dataToSave in saveToStorage.  Its savedAt field is written and never read
\* back, and is left out.
DataToSave(ks, eid, dk, ls) ==
    [keys |-> ks, employeeId |-> eid, deviceKey |-> dk, lastSync |-> ls]

\* A record saved by an earlier run of the app.
OldRecord ==
    DataToSave(<<KeyA>>, "E1", "D1", 0)

InitialItems == {NoItem, CorruptItem, JSONStringifyRecord(OldRecord)}

---------------------------------------------------------------------------
(* Key sync responses *)

\* The body of a response with a success status: text that response.json()
\* cannot parse, or an object.  hasKeys tells whether the object has a keys
\* array; an absent employee record or employee id is employeeId "", an absent
\* syncTimestamp is 0 (both are falsy, as the absent value is).
UnparseableBody ==
    [parses |-> FALSE, hasKeys |-> FALSE, keys |-> <<>>, employeeId |-> "",
     syncTimestamp |-> 0]

Body(hasKeys, ks, e, ts) ==
    [parses |-> TRUE, hasKeys |-> hasKeys, keys |-> ks, employeeId |-> e,
     syncTimestamp |-> ts]

\* The well-formed bodies at server time t + 1, and bodies that lack the
\* keys array, the employee id or the syncTimestamp.
ObjectBodies(t) ==
    {Body(TRUE, ks, "E1", t + 1) : ks \in KeySeqs}
    \cup {Body(FALSE, <<>>, "E1", t + 1),
          Body(TRUE, <<KeyA, KeyB>>, "", t + 1),
          Body(TRUE, <<KeyB, KeyA>>, "E1", 0)}

ResponseBodies(t) == {UnparseableBody} \cup ObjectBodies(t)

\* Mutant: the keys of the response are added to the stored ones.
DataKeys_Merge(data) == keys \o (IF data.hasKeys THEN data.keys ELSE <<>>)

\* data.keys || []
DataKeys(data) == IF data.hasKeys THEN data.keys ELSE <<>>

---------------------------------------------------------------------------
(* Readers *)

\* Mutant: the device key is not looked at.
HasValidKeys_NoDeviceKey ==
    /\ Len(FilterValidKeys(keys, now)) > 0
    /\ TruthyStr(employeeId)

\* hasValidKeys(): validKeys.length > 0 && !!this.employeeId && !!this.deviceKey
HasValidKeys ==
    /\ Len(FilterValidKeys(keys, now)) > 0
    /\ TruthyStr(employeeId)
    /\ TruthyStr(deviceKey)

\* The object getStatus() returns; isReady is what its call of
\* this.hasValidKeys() returned.
GetStatus(isReady) ==
    [totalKeys |-> Len(keys),
     validKeys |-> Len(FilterValidKeys(keys, now)),
     hasEmployeeId |-> TruthyStr(employeeId),
     hasDeviceKey |-> TruthyStr(deviceKey),
     lastSync |-> lastSync,
     isReady |-> isReady]


---------------------------------------------------------------------------
(* Initial state: the module-level singleton has just been constructed *)

\* x || d for a string
OrStr(x, d) == IF TruthyStr(x) THEN x ELSE d

Request(op, value, awaiter, slot) ==
    [op |-> op, value |-> value, awaiter |-> awaiter, slot |-> slot]

IdleSync == [pc |-> "idle", data |-> UnparseableBody, result |-> FALSE]

IdleMint ==
    [pc |-> "idle", type |-> "TIME_IN", now |-> 0, validKey |-> <<>>,
     payload |-> <<>>, result |-> Null]

\* What a generateOfflineQR call found at its entry.
CallSnapshot(afterSet) ==
    [keys |-> keys, employeeId |-> employeeId, deviceKey |-> deviceKey, now |-> now,
     polled |-> polled, syncPcs |-> [i \in DOMAIN syncs |-> syncs[i].pc],
     afterSetDeviceKey |-> afterSet, storageOnly |-> afterSet]

NoMintCall ==
    [keys |-> <<>>, employeeId |-> "", deviceKey |-> "", now |-> 0,
     polled |-> FALSE, syncPcs |-> <<"idle">>,
     afterSetDeviceKey |-> FALSE, storageOnly |-> FALSE]

\* The sessions of the auth context: the logged-in user's employee id, "" when
\* nobody is logged in, and the device key the server issued to that user.
Users == {"E1", "E2"}

DeviceKeyOf(u) == IF u = "E1" THEN "D1" ELSE "D2"

\* The React state of a freshly mounted attendance screen (the useState initial
\* values: currentQR, qrType, qrExpiry null, timeLeft 0, keysAvailable and
\* syncing false); null is Null for currentQR, "" for qrType, 0 for qrExpiry.
\* generateQR is the position of the generateQR call that awaits the generator
\* and type its argument; shows holds the generateQR calls that got a token and
\* are at or after the await of preventScreenCaptureAsync, clears the clearQR
\* calls in flight.  checked, got and leftBy are history: the hasValidKeys()
\* result and the mint result the latest generateQR saw, and who called the
\* clearQR that last cleared a QR.
FreshState ==
    [mounted |-> FALSE, currentQR |-> Null, qrType |-> "", qrExpiry |-> 0,
     timeLeft |-> 0, keysAvailable |-> FALSE, syncing |-> FALSE,
     generateQR |-> "idle", type |-> "", shows |-> <<>>, clears |-> <<>>,
     checked |-> "none", got |-> "none", leftBy |-> "none"]

\* At application start: the stored session of user E1 is restored, the
\* attendance screen is not mounted yet, screen capture is allowed.
IdleScreen ==
    [session |-> "E1", loggedOut |-> "", capture |-> "allowed"] @@ FreshState

\* Field initialisers, then constructor(): loadFromStorage() runs up to its
\* await of AsyncStorage.getItem and is not awaited.
InitWith(budget) ==
    /\ now = 0
    /\ keys = <<>>
    /\ employeeId = ""
    /\ deviceKey = ""
    /\ lastSync = 0
    /\ stored \in InitialItems
    /\ storageQ = <<Request("getItem", NoItem, "load", 0)>>
    /\ syncs = <<IdleSync>>
    /\ mint = IdleMint
    /\ clearCall = "idle"
    /\ polled = FALSE
    /\ mintCall = NoMintCall
    /\ justSetDeviceKey = FALSE
    /\ calls = budget
    /\ instance = 1
    /\ status = <<>>
    /\ screen = IdleScreen

Init == InitWith(MaxCalls)

---------------------------------------------------------------------------
(* History bookkeeping *)

MintInFlight == mint.pc \in {"nonce", "digest"}

\* A generator call or a network completion ran while the mint was suspended.
NotStorageOnly ==
    mintCall' = IF MintInFlight THEN [mintCall EXCEPT !.storageOnly = FALSE] ELSE mintCall

\* A new generator call other than setDeviceKey.
CountCall ==
    /\ calls > 0
    /\ calls' = calls - 1
    /\ justSetDeviceKey' = FALSE

---------------------------------------------------------------------------
(* The clock *)

Tick ==
    /\ now < MaxTime
    /\ now' = now + 1
    /\ UNCHANGED <<screen, instance, status, keys, employeeId, deviceKey, lastSync, stored, storageQ,
                   syncs, mint, clearCall, polled, mintCall, justSetDeviceKey, calls>>

---------------------------------------------------------------------------
(* saveToStorage, setEmployeeId, setDeviceKey *)

\* saveToStorage() up to its await: the setItem request for the bundle given.
SaveRequest(ks, eid, dk, ls, awaiter, slot) ==
    Request("setItem",
            JSONStringifyRecord(DataToSave(ks, eid, dk, ls)), awaiter, slot)

\* Mutant: an empty id is refused and the old one kept.
SetEmployeeId_KeepsOnEmpty(id) ==
    LET new == IF id = "" THEN employeeId ELSE id
    IN /\ CountCall
       /\ employeeId' = new
       /\ storageQ' = Append(storageQ, SaveRequest(keys, new, deviceKey, lastSync, "none", 0))
       /\ NotStorageOnly
       /\ UNCHANGED <<screen, instance, status, now, keys, deviceKey, lastSync, stored, syncs, mint,
                      clearCall, polled>>

SetEmployeeId(id) ==
    /\ CountCall
    /\ employeeId' = id
    /\ storageQ' = Append(storageQ, SaveRequest(keys, id, deviceKey, lastSync, "none", 0))
    /\ NotStorageOnly
    /\ UNCHANGED <<screen, instance, status, now, keys, deviceKey, lastSync, stored, syncs, mint, clearCall, polled>>

SetDeviceKey(dk) ==
    /\ calls > 0
    /\ calls' = calls - 1
    /\ justSetDeviceKey' = TRUE
    /\ deviceKey' = dk
    /\ storageQ' = Append(storageQ, SaveRequest(keys, employeeId, dk, lastSync, "none", 0))
    /\ NotStorageOnly
    /\ UNCHANGED <<screen, instance, status, now, keys, employeeId, lastSync, stored, syncs, mint, clearCall, polled>>

---------------------------------------------------------------------------
(* clearStorage *)

ClearStorage ==
    /\ clearCall # "pending"
    /\ CountCall
    /\ keys' = <<>>
    /\ employeeId' = ""
    /\ deviceKey' = ""
    /\ lastSync' = 0
    /\ storageQ' = Append(storageQ, Request("removeItem", NoItem, "clear", 0))
    /\ clearCall' = "pending"
    /\ NotStorageOnly
    /\ UNCHANGED <<screen, instance, status, now, stored, syncs, mint, polled>>

---------------------------------------------------------------------------
(* hasValidKeys, as the attendance screen polls it *)

\* Mutant: the scan drops the keys whose window does not contain now.
Poll_PrunesExpired ==
    /\ polled' = HasValidKeys
    /\ keys' = FilterValidKeys(keys, now)
    /\ UNCHANGED <<screen, instance, status, now, employeeId, deviceKey, lastSync, stored, storageQ,
                   syncs, mint, clearCall, mintCall, justSetDeviceKey, calls>>

Poll ==
    /\ polled' = HasValidKeys
    /\ UNCHANGED <<screen, instance, status, now, keys, employeeId, deviceKey, lastSync, stored, storageQ, syncs,
                   mint, clearCall, mintCall, justSetDeviceKey, calls>>

\* getStatus(): Date.now() is read for the filter (line 187) and again inside
\* this.hasValidKeys() (line 178); the clock has advanced by d between the
\* two reads.
GetStatusCall(d) ==
    /\ now + d <= MaxTime
    /\ now' = now + d
    /\ UNCHANGED <<screen, instance, keys, employeeId, deviceKey, lastSync, stored,
                   storageQ, syncs, mint, clearCall, polled, mintCall, justSetDeviceKey,
                   calls>>
    /\ status' = <<GetStatus(HasValidKeys')>>

---------------------------------------------------------------------------
(* syncKeys *)

\* Entry to the await of fetch.
SyncStart(i) ==
    /\ syncs[i].pc \in {"idle", "done"}
    /\ CountCall
    /\ syncs' = [syncs EXCEPT ![i] = [IdleSync EXCEPT !.pc = "fetch"]]
    /\ NotStorageOnly
    /\ UNCHANGED <<screen, instance, status, now, keys, employeeId, deviceKey, lastSync, stored, storageQ,
                   mint, clearCall, polled>>

\* fetch resolves: response.ok leads to the await of response.json(), any
\* other status to the await of response.text().
SyncFetchResolve(i, ok) ==
    /\ syncs[i].pc = "fetch"
    /\ syncs' = [syncs EXCEPT ![i].pc = IF ok THEN "json" ELSE "text"]
    /\ NotStorageOnly
    /\ justSetDeviceKey' = FALSE
    /\ UNCHANGED <<screen, instance, status, now, keys, employeeId, deviceKey, lastSync, stored, storageQ,
                   mint, clearCall, polled, calls>>

\* Mutant: a failed sync drops the stored keys.
SyncFail_DropsKeys(i) ==
    /\ syncs[i].pc \in {"fetch", "text"}
    /\ syncs' = [syncs EXCEPT ![i] = [IdleSync EXCEPT !.pc = "done", !.result = FALSE]]
    /\ keys' = <<>>
    /\ NotStorageOnly
    /\ justSetDeviceKey' = FALSE
    /\ UNCHANGED <<screen, instance, status, now, employeeId, deviceKey, lastSync, stored, storageQ,
                   mint, clearCall, polled, calls>>

\* fetch rejects (network failure), or response.text() settles after a
\* non-success status: the catch block or the else branch, then return false.
SyncFail(i) ==
    /\ syncs[i].pc \in {"fetch", "text"}
    /\ syncs' = [syncs EXCEPT ![i] = [IdleSync EXCEPT !.pc = "done", !.result = FALSE]]
    /\ NotStorageOnly
    /\ justSetDeviceKey' = FALSE
    /\ UNCHANGED <<screen, instance, status, now, keys, employeeId, deviceKey, lastSync, stored, storageQ,
                   mint, clearCall, polled, calls>>

\* Mutant: the parsed bundle is saved first and not yet assigned.
SyncJson_SavesBeforeAssign(i, data) ==
    /\ syncs[i].pc = "json"
    /\ IF data.parses
       THEN LET ks == DataKeys(data)
                eid == OrStr(data.employeeId, "")
                ls == OrNum(data.syncTimestamp, now)
            IN /\ storageQ' = Append(storageQ, SaveRequest(ks, eid, deviceKey, ls, "sync", i))
               /\ syncs' = [syncs EXCEPT ![i] = [pc |-> "save", data |-> data, result |-> FALSE]]
       ELSE /\ syncs' = [syncs EXCEPT ![i] = [IdleSync EXCEPT !.pc = "done", !.result = FALSE]]
            /\ UNCHANGED storageQ
    /\ justSetDeviceKey' = FALSE
    /\ NotStorageOnly
    /\ UNCHANGED <<screen, instance, status, now, keys, employeeId, lastSync, deviceKey, stored, mint, clearCall,
                   polled, calls>>

\* response.json() settles.  A body that does not parse rejects: catch, return
\* false.  Otherwise the three assignments, then saveToStorage() up to its
\* await of setItem.
SyncJson(i, data) ==
    /\ syncs[i].pc = "json"
    /\ IF data.parses
       THEN LET ks == DataKeys(data)
                eid == OrStr(data.employeeId, "")
                ls == OrNum(data.syncTimestamp, now)
            IN /\ keys' = ks
               /\ employeeId' = eid
               /\ lastSync' = ls
               /\ storageQ' = Append(storageQ, SaveRequest(ks, eid, deviceKey, ls, "sync", i))
               /\ syncs' = [syncs EXCEPT ![i] = [pc |-> "save", data |-> data, result |-> FALSE]]
       ELSE /\ syncs' = [syncs EXCEPT ![i] = [IdleSync EXCEPT !.pc = "done", !.result = FALSE]]
            /\ UNCHANGED <<keys, employeeId, lastSync, storageQ>>
    /\ justSetDeviceKey' = FALSE
    /\ NotStorageOnly
    /\ UNCHANGED <<screen, instance, status, now, deviceKey, stored, mint, clearCall, polled, calls>>

---------------------------------------------------------------------------
(* generateOfflineQR *)

\* Mutant: the payload is built with type as its first property.
Payload_TypeFirst(eid, dk, type, timestamp, nonce, expiry) ==
    << <<"type", type>>, <<"employeeId", eid>>, <<"deviceKey", dk>>,
       <<"timestamp", timestamp>>, <<"nonce", nonce>>, <<"expiry", expiry>> >>

\* const payload = { employeeId, deviceKey, type, timestamp, nonce, expiry }
Payload(eid, dk, type, timestamp, nonce, expiry) ==
    << <<"employeeId", eid>>, <<"deviceKey", dk>>, <<"type", type>>,
       <<"timestamp", timestamp>>, <<"nonce", nonce>>, <<"expiry", expiry>> >>

\* Mutant: the device key is not checked.
IdentityPresent_NoDeviceKey(eid, dk) == TruthyStr(eid)

\* Mutant: a store that has never synced is refused.
IdentityPresent_NeedsSync(eid, dk) == TruthyStr(eid) /\ TruthyStr(dk) /\ lastSync # 0

\* if (!this.employeeId) return null; if (!this.deviceKey) return null;
IdentityPresent(eid, dk) == TruthyStr(eid) /\ TruthyStr(dk)

\* Mutant: 30 taken as milliseconds.
Expiry_Seconds(t) == t + 30

\* const expiry = now + 30 * 1000
Expiry(t) == t + QR_EXPIRY_MS

\* Entry to the await of Crypto.getRandomBytesAsync, or to one of the three
\* return null statements.
GenerateOfflineQRAt(type, t, p) ==
    /\ mint.pc \in {"idle", "done"}
    /\ calls > 0
    /\ calls' = calls - 1
    /\ mintCall' = [CallSnapshot(justSetDeviceKey) EXCEPT !.now = t, !.polled = p]
    /\ justSetDeviceKey' = FALSE
    /\ LET validKey == FindValidKey(keys, t)
           failed == [IdleMint EXCEPT !.pc = "done", !.type = type, !.now = t]
       IN mint' = IF validKey = <<>> THEN failed
                  ELSE IF ~IdentityPresent(employeeId, deviceKey) THEN failed
                  ELSE [pc |-> "nonce", type |-> type, now |-> t, validKey |-> validKey,
                        payload |-> <<>>, result |-> Null]

\* generateOfflineQR called on its own, from outside the attendance screen's
\* generateQR handler: Date.now() of line 88 is the current clock value.
MintStart(type) ==
    /\ GenerateOfflineQRAt(type, now, polled)
    /\ UNCHANGED <<screen, instance, status, now, keys, employeeId, deviceKey, lastSync,
                   stored, storageQ, syncs, clearCall, polled>>

\* getRandomBytesAsync resolves: nonce string, expiry, payload, up to the
\* await of Crypto.digestStringAsync.
MintNonce(nonce) ==
    /\ mint.pc = "nonce"
    /\ LET expiry == Expiry(mint.now)
       IN mint' = [mint EXCEPT !.pc = "digest",
                               !.payload = Payload(employeeId, deviceKey, mint.type,
                                                   mint.now, nonce, expiry)]
    /\ UNCHANGED <<screen, instance, status, now, keys, employeeId, deviceKey, lastSync, stored, storageQ, syncs,
                   clearCall, polled, mintCall, justSetDeviceKey, calls>>

\* Mutant: the mint records its time as lastSync before it returns.
MintDigest_Writes ==
    /\ mint.pc = "digest"
    /\ LET payloadString == JSONStringifyObject(mint.payload)
           signature == SHA256Hex(<<mint.validKey[1].key>> \o payloadString)
           qrData == mint.payload \o << <<"signature", signature>> >>
       IN mint' = [mint EXCEPT !.pc = "done",
                               !.result = Token(Btoa(JSONStringifyObject(qrData)))]
    /\ lastSync' = mint.now + 1
    /\ UNCHANGED <<screen, instance, status, now, keys, employeeId, deviceKey, stored, storageQ, syncs,
                   clearCall, polled, mintCall, justSetDeviceKey, calls>>

\* digestStringAsync resolves: qrData = { ...payload, signature }, btoa, return.
MintDigest ==
    /\ mint.pc = "digest"
    /\ LET payloadString == JSONStringifyObject(mint.payload)
           signature == SHA256Hex(<<mint.validKey[1].key>> \o payloadString)
           qrData == mint.payload \o << <<"signature", signature>> >>
           qrString == JSONStringifyObject(qrData)
       IN mint' = [mint EXCEPT !.pc = "done", !.result = Token(Btoa(qrString))]
    /\ UNCHANGED <<screen, instance, status, now, keys, employeeId, deviceKey, lastSync, stored, storageQ, syncs,
                   clearCall, polled, mintCall, justSetDeviceKey, calls>>

---------------------------------------------------------------------------
(* AsyncStorage completes the oldest request *)

\* Mutant: the device key of the record is not restored.
LoadedBundle_NoDeviceKey(item) ==
    IF item.kind = "json"
    THEN LET data == JSONParse(item.value)
         IN <<IF "keys" \in DOMAIN data THEN data.keys ELSE <<>>,
              OrStr(Prop(data, "employeeId", ""), ""),
              deviceKey,
              OrNum(Prop(data, "lastSync", 0), 0)>>
    ELSE bundle

\* The assignments of loadFromStorage once getItem has resolved with item.
LoadedBundle(item) ==
    IF item.kind = "json"
    THEN LET data == JSONParse(item.value)
         IN <<IF "keys" \in DOMAIN data THEN data.keys ELSE <<>>,
              OrStr(Prop(data, "employeeId", ""), ""),
              OrStr(Prop(data, "deviceKey", ""), ""),
              OrNum(Prop(data, "lastSync", 0), 0)>>
    ELSE bundle

\* Mutant: syncKeys returns false when its save failed.
Resume_SaveErrorPropagates(req, ok) ==
    /\ syncs' = IF req.awaiter = "sync"
                THEN [syncs EXCEPT ![req.slot].pc = "done", ![req.slot].result = ok]
                ELSE syncs
    /\ clearCall' = IF req.awaiter = "clear"
                    THEN (IF ok THEN "resolved" ELSE "rejected")
                    ELSE clearCall

\* The continuation of whoever awaits the request.
Resume(req, ok) ==
    /\ syncs' = IF req.awaiter = "sync"
                THEN [syncs EXCEPT ![req.slot].pc = "done", ![req.slot].result = TRUE]
                ELSE syncs
    /\ clearCall' = IF req.awaiter = "clear"
                    THEN (IF ok THEN "resolved" ELSE "rejected")
                    ELSE clearCall

StorageStep(ok) ==
    /\ storageQ # <<>>
    /\ LET req == Head(storageQ)
       IN /\ storageQ' = Tail(storageQ)
          /\ stored' = IF ~ok THEN stored
                       ELSE IF req.op = "setItem" THEN req.value
                       ELSE IF req.op = "removeItem" THEN NoItem
                       ELSE stored
          /\ LET loaded == IF ok /\ req.op = "getItem" THEN LoadedBundle(stored) ELSE bundle
             IN /\ keys' = loaded[1]
                /\ employeeId' = loaded[2]
                /\ deviceKey' = loaded[3]
                /\ lastSync' = loaded[4]
          /\ Resume(req, ok)
    /\ justSetDeviceKey' = FALSE
    /\ UNCHANGED <<screen, instance, status, now, mint, polled, mintCall, calls>>

---------------------------------------------------------------------------
(* Specification *)

Next ==
    \/ Tick
    \/ \E id \in EmployeeIds : SetEmployeeId(id)
    \/ \E dk \in DeviceKeys : SetDeviceKey(dk)
    \/ ClearStorage
    \/ Poll
    \/ \E i \in DOMAIN syncs : SyncStart(i)
    \/ \E i \in DOMAIN syncs, ok \in BOOLEAN : SyncFetchResolve(i, ok)
    \/ \E i \in DOMAIN syncs : SyncFail(i)
    \/ \E i \in DOMAIN syncs : \E data \in ResponseBodies(now) : SyncJson(i, data)
    \/ \E type \in ActionTypes : MintStart(type)
    \/ \E nonce \in Nonces : MintNonce(nonce)
    \/ MintDigest
    \/ \E ok \in BOOLEAN : StorageStep(ok)

Spec == Init /\ [][Next]_vars

\* The race of the constructor's load with a sync, setDeviceKey and a mint:
\* three generator calls, storage that does not fail.
MaxRaceCalls == 3

InitLoadRace == InitWith(MaxRaceCalls)

NextLoadRace ==
    \/ Tick
    \/ \E dk \in DeviceKeys : SetDeviceKey(dk)
    \/ \E i \in DOMAIN syncs : SyncStart(i)
    \/ \E i \in DOMAIN syncs : SyncFetchResolve(i, TRUE)
    \/ \E i \in DOMAIN syncs : \E data \in ObjectBodies(now) : SyncJson(i, data)
    \/ \E type \in ActionTypes : MintStart(type)
    \/ \E nonce \in Nonces : MintNonce(nonce)
    \/ MintDigest
    \/ StorageStep(TRUE)

SpecLoadRace == InitLoadRace /\ [][NextLoadRace]_vars

---------------------------------------------------------------------------
(* Saving, then loading in a fresh instance *)

MaxInstances == 2

\* The app is started again once no storage request is pending: the module is
\* evaluated anew, the field initialisers and the constructor run, the calls
\* of the old instance are gone, the AsyncStorage item stays.
Restart ==
    /\ instance < MaxInstances
    /\ storageQ = <<>>
    /\ instance' = instance + 1
    /\ keys' = <<>>
    /\ employeeId' = ""
    /\ deviceKey' = ""
    /\ lastSync' = 0
    /\ storageQ' = <<Request("getItem", NoItem, "load", 0)>>
    /\ syncs' = <<IdleSync>>
    /\ mint' = IdleMint
    /\ clearCall' = "idle"
    /\ polled' = FALSE
    /\ mintCall' = NoMintCall
    /\ justSetDeviceKey' = FALSE
    /\ status' = <<>>
    /\ screen' = IdleScreen
    /\ UNCHANGED <<now, stored, calls>>

\* A key without the optional hourIndex.
KeyC == [timestamp |-> 1, key |-> "kc", validFrom |-> 2, validTo |-> 2]

\* The bundles an instance can hold: keys of a sync response, the ids of the
\* setters, the time of a sync.
Bundles ==
    {ks \in UNION {[1..n -> {KeyA, KeyB, KeyC}] : n \in 0..MaxKeys} :
        \A i, j \in 1..Len(ks) : ks[i] = ks[j] => i = j}
    \X EmployeeIds \X DeviceKeys \X (0..MaxTime)

\* An instance whose load has completed and that holds any of these bundles.
InitRoundTrip ==
    /\ now = 0
    /\ \E b \in Bundles :
          /\ keys = b[1]
          /\ employeeId = b[2]
          /\ deviceKey = b[3]
          /\ lastSync = b[4]
    /\ stored \in InitialItems
    /\ storageQ = <<>>
    /\ syncs = <<IdleSync>>
    /\ mint = IdleMint
    /\ clearCall = "idle"
    /\ polled = FALSE
    /\ mintCall = NoMintCall
    /\ justSetDeviceKey = FALSE
    /\ calls = MaxCalls
    /\ instance = 1
    /\ status = <<>>
    /\ screen = IdleScreen

\* The setters save the bundle, storage does not fail, the app restarts.
NextRoundTrip ==
    \/ \E id \in EmployeeIds : SetEmployeeId(id)
    \/ \E dk \in DeviceKeys : SetDeviceKey(dk)
    \/ StorageStep(TRUE)
    \/ Restart

SpecRoundTrip == InitRoundTrip /\ [][NextRoundTrip]_vars

---------------------------------------------------------------------------
(* clearStorage next to the constructor's load *)

\* The only writers are clearStorage and the load the constructor started;
\* the readers run at any time.
NextClearRace ==
    \/ Tick
    \/ ClearStorage
    \/ Poll
    \/ \E type \in ActionTypes : MintStart(type)
    \/ \E nonce \in Nonces : MintNonce(nonce)
    \/ MintDigest
    \/ \E ok \in BOOLEAN : StorageStep(ok)

SpecClearRace == Init /\ [][NextClearRace]_vars

---------------------------------------------------------------------------
(* The readers next to the setters and the load *)

\* getStatus() and hasValidKeys() as the attendance screen calls them, while
\* the load completes, the setters run and the clock moves.
NextStatus ==
    \/ Tick
    \/ \E id \in EmployeeIds : SetEmployeeId(id)
    \/ \E dk \in DeviceKeys : SetDeviceKey(dk)
    \/ Poll
    \/ \E d \in 0..1 : GetStatusCall(d)
    \/ \E ok \in BOOLEAN : StorageStep(ok)

SpecStatus == Init /\ [][NextStatus]_vars

---------------------------------------------------------------------------
(* Two overlapping syncKeys calls *)

\* The load has completed on an empty storage; two call slots.
InitTwoSyncs ==
    /\ now = 0
    /\ keys = <<>>
    /\ employeeId = ""
    /\ deviceKey = ""
    /\ lastSync = 0
    /\ stored = NoItem
    /\ storageQ = <<>>
    /\ syncs = <<IdleSync, IdleSync>>
    /\ mint = IdleMint
    /\ clearCall = "idle"
    /\ polled = FALSE
    /\ mintCall = NoMintCall
    /\ justSetDeviceKey = FALSE
    /\ calls = MaxCalls
    /\ instance = 1
    /\ status = <<>>
    /\ screen = IdleScreen

\* The setup effect starts the first call; the Sync Keys or Force Sync button
\* starts the second while the first is in flight.  Both get success
\* responses, in either order; storage does not fail.
NextTwoSyncs ==
    \/ Tick
    \/ (syncs[1].pc = "idle" /\ syncs[2].pc = "idle" /\ SyncStart(1))
    \/ (syncs[1].pc \in {"fetch", "json", "save"} /\ syncs[2].pc = "idle" /\ SyncStart(2))
    \/ \E i \in DOMAIN syncs : SyncFetchResolve(i, TRUE)
    \/ \E i \in DOMAIN syncs : \E data \in ObjectBodies(now) : SyncJson(i, data)
    \/ StorageStep(TRUE)

SpecTwoSyncs == InitTwoSyncs /\ [][NextTwoSyncs]_vars

---------------------------------------------------------------------------
(* Vocabulary of the properties *)

\* What the verifier does with a token: atob, then JSON.parse, which gives
\* the pairs in the order of the text; obj[name] on the result.
Atob(b) == Tail(b)

JSONParseObject(str) ==
    [i \in 1..((Len(str) - 2) \div 2) |-> <<str[2 * i], str[2 * i + 1]>>]

Decode(result) == JSONParseObject(Atob(result.b64))

Field(pairs, name) ==
    LET i == CHOOSE j \in 1..Len(pairs) : pairs[j][1] = name IN pairs[i][2]

FieldNames(pairs) == [i \in 1..Len(pairs) |-> pairs[i][1]]

MintReturned == mint.pc = "done"
MintedToken == MintReturned /\ ~mint.result.isNull

\* The decoded token of the returned call, and its six payload fields.
DecodedToken == Decode(mint.result)
SignedFields(tok) == SubSeq(tok, 1, Len(tok) - 1)

\* The indices of the keys of ks whose window contains t, both ends included.
Covering(ks, t) == {i \in 1..Len(ks) : ks[i].validFrom <= t /\ t <= ks[i].validTo}

\* The signature a verifier computes for token tok under the secret of key k.
SignatureUnder(k, tok) == SHA256Hex(<<k.key>> \o JSONStringifyObject(SignedFields(tok)))

---------------------------------------------------------------------------
(* C1 *)

\* C1: a generateOfflineQR call whose now is t returns a token only if a key
\* stored at the call has validFrom <= t <= validTo, and the token is signed
\* with the secret of such a key; if no stored key's window contains t, the
\* call returns null.
C1_WindowSelection ==
    MintReturned =>
        LET t == mint.now
            ks == mintCall.keys
        IN /\ MintedToken =>
                \E i \in Covering(ks, t) :
                    Field(DecodedToken, "signature") = SignatureUnder(ks[i], DecodedToken)
           /\ Covering(ks, t) = {} => mint.result.isNull

\* A token minted from a store of two keys of which only the second covers t.
C1_Witness ==
    /\ MintedToken
    /\ Len(mintCall.keys) = 2
    /\ Covering(mintCall.keys, mint.now) = {2}

---------------------------------------------------------------------------
(* C2 *)

\* The store was ready when the call began: a key covered now and both
\* identity fields were non-empty.
ReadyAtCall ==
    /\ Covering(mintCall.keys, mintCall.now) # {}
    /\ mintCall.employeeId # ""
    /\ mintCall.deviceKey # ""

\* C2: a generateOfflineQR call that begins in a state where a stored key's
\* window contains now and employeeId and deviceKey are non-empty returns a
\* non-null token, whatever the syncKeys calls did or are doing (never made,
\* in flight, failed), and no step of the call touches a syncKeys call or
\* issues a request.
C2_OfflineCapability ==
    /\ [](MintReturned /\ ReadyAtCall => ~mint.result.isNull)
    /\ [][mint' # mint => syncs' = syncs]_vars

\* A token returned by a call that began after a sync had failed and whose
\* store has never seen a successful sync.
C2_Witness ==
    /\ MintedToken
    /\ ReadyAtCall
    /\ mintCall.syncPcs[1] = "done"
    /\ ~syncs[1].result
    /\ lastSync = 0

---------------------------------------------------------------------------
(* C3 *)

\* Call i takes a step of the path that ends in return false after a network
\* failure or a non-success status (or the step that enters the call).
SyncFailurePathStep(i) ==
    /\ syncs'[i] # syncs[i]
    /\ syncs[i].pc \in {"idle", "done", "fetch", "text"}
    /\ syncs'[i].pc \in {"fetch", "text", "done"}

\* C3: a syncKeys call whose request fails at the network level or gets a
\* non-success status changes none of keys, employeeId, deviceKey, lastSync
\* (nor the persisted record) and returns false.
C3_FailedSyncLeavesBundle ==
    [][\A i \in DOMAIN syncs :
          SyncFailurePathStep(i) =>
              /\ UNCHANGED store
              /\ syncs'[i].pc = "done" => ~syncs'[i].result]_vars

\* A sync has failed, the keys stored before it are still there, and a mint
\* that began after the failure returned a token.
C3_Witness ==
    /\ syncs[1].pc = "done"
    /\ ~syncs[1].result
    /\ keys = <<KeyA>>
    /\ mintCall.syncPcs[1] = "done"
    /\ MintedToken

---------------------------------------------------------------------------
(* C4 *)

---------------------------------------------------------------------------
(* C5 *)

\* C5: in every reachable state hasValidKeys() is true iff a stored key has
\* validFrom <= now <= validTo and employeeId and deviceKey are non-empty, on
\* the in-memory bundle, whatever the persisted record holds.
C5_Readiness ==
    HasValidKeys <=>
        /\ \E i \in 1..Len(keys) : keys[i].validFrom <= now /\ now <= keys[i].validTo
        /\ employeeId # ""
        /\ deviceKey # ""

\* Ready right after setDeviceKey, while its save is pending and the
\* persisted record still holds the old device key.
C5_Witness ==
    /\ HasValidKeys
    /\ justSetDeviceKey
    /\ storageQ # <<>>
    /\ stored.kind = "json"
    /\ JSONParse(stored.value).deviceKey # deviceKey

---------------------------------------------------------------------------
(* C6 *)

\* C6: a generateOfflineQR call that begins right after setDeviceKey(D2)
\* returns, and during which only storage requests complete, returns a token
\* whose deviceKey field is D2.
C6_DeviceKeyAuthoritative ==
    (MintedToken /\ mintCall.afterSetDeviceKey /\ mintCall.storageOnly) =>
        Field(DecodedToken, "deviceKey") = mintCall.deviceKey

---------------------------------------------------------------------------
(* C7 *)

\* C7: a generateOfflineQR call that begins with employeeId empty or
\* deviceKey empty returns null at once.
C7_IdentityRevalidated ==
    (mint.pc # "idle" /\ (mintCall.employeeId = "" \/ mintCall.deviceKey = "")) =>
        (MintReturned /\ mint.result.isNull)

\* Null although a key covered now and the latest hasValidKeys() before the
\* call had returned true.
C7_Witness ==
    /\ MintReturned
    /\ mint.result.isNull
    /\ mintCall.deviceKey = ""
    /\ Covering(mintCall.keys, mintCall.now) # {}
    /\ mintCall.polled

---------------------------------------------------------------------------
(* C8 *)

\* C8: no step of a generateOfflineQR call, whether the call returns a token
\* or null, changes keys, employeeId, deviceKey, lastSync, the persisted
\* record or the queue of storage requests.
C8_MintFrame == [][mint' # mint => UNCHANGED store]_vars

\* A call has returned null for want of a covering key, the store holding a
\* key and both identity fields.
C8_Witness ==
    /\ MintReturned
    /\ mint.result.isNull
    /\ keys # <<>>
    /\ employeeId # ""
    /\ deviceKey # ""
    /\ stored.kind = "json"

---------------------------------------------------------------------------
(* C9 *)

\* C9: in every minted token expiry - timestamp = 30000, and timestamp is
\* the now captured at the entry of the call, which the window of the
\* signing key contains.
C9_Expiry ==
    MintedToken =>
        LET tok == DecodedToken
        IN /\ Field(tok, "expiry") - Field(tok, "timestamp") = 30000
           /\ Field(tok, "timestamp") = mintCall.now
           /\ \E i \in Covering(mintCall.keys, Field(tok, "timestamp")) :
                  Field(tok, "signature") = SignatureUnder(mintCall.keys[i], tok)

\* A token returned after the clock moved on during the call.
C9_Witness ==
    /\ MintedToken
    /\ now > mintCall.now

---------------------------------------------------------------------------
(* C10 *)

\* The first index of ks whose window contains t.
FirstCovering(ks, t) ==
    CHOOSE i \in Covering(ks, t) : \A j \in Covering(ks, t) : i <= j

\* C10: when several stored keys cover the mint time, the token is signed
\* with the one that comes first in the stored sequence.
C10_FirstMatch ==
    MintedToken =>
        LET ks == mintCall.keys
            first == ks[FirstCovering(ks, mintCall.now)]
        IN Field(DecodedToken, "signature") = SignatureUnder(first, DecodedToken)

\* Two keys cover the mint time; the first of the sequence has the later
\* window and the lower hourIndex.
C10_Witness ==
    /\ MintedToken
    /\ Covering(mintCall.keys, mintCall.now) = {1, 2}
    /\ mintCall.keys[1].validFrom > mintCall.keys[2].validFrom
    /\ mintCall.keys[1].hourIndex < mintCall.keys[2].hourIndex
    /\ mintCall.keys[1].key # mintCall.keys[2].key

---------------------------------------------------------------------------
(* C11 *)

\* A body that response.json() cannot parse, or that lacks the keys array or
\* the employee record.
Malformed(data) == ~data.parses \/ ~data.hasKeys \/ data.employeeId = ""

\* C11: when a syncKeys call receives a success status with a malformed body
\* (unparseable, no keys array, no employee record), the step that takes the
\* body in leaves keys and employeeId as they were and the call returns false.
C11_MalformedBodyIsFailure ==
    [][\A i \in DOMAIN syncs :
          (syncs[i].pc = "json" /\ syncs'[i] # syncs[i] /\ Malformed(syncs'[i].data)) =>
              /\ keys' = keys
              /\ employeeId' = employeeId
              /\ syncs'[i].pc = "done"
              /\ ~syncs'[i].result]_vars

---------------------------------------------------------------------------
(* C12 *)

\* A continuation of the suspended generateOfflineQR call.
MintResume == (\E nonce \in Nonces : MintNonce(nonce)) \/ MintDigest

\* C12 as claimed: until its persist step has finished, no step of a syncKeys
\* call changes the keys or the employeeId that hasValidKeys() and
\* generateOfflineQR() read.
C12_NewBundleAfterPersist ==
    [][\A i \in DOMAIN syncs :
          (syncs'[i] # syncs[i] /\ syncs'[i].pc # "done") =>
              UNCHANGED <<keys, employeeId>>]_vars

\* C12, amended: while a syncKeys call is in flight hasValidKeys() can run
\* and a suspended generateOfflineQR can resume; the call leaves keys and
\* employeeId as they were until its response body has been parsed; the step
\* that parses the body makes the new keys and employeeId visible, while the
\* persist step is still to come.
C12_NewBundleAfterResponse ==
    /\ []((\E i \in DOMAIN syncs : syncs[i].pc \in {"fetch", "json", "text", "save"}) =>
             /\ ENABLED Poll
             /\ MintInFlight => ENABLED MintResume)
    /\ [][\A i \in DOMAIN syncs :
             /\ (syncs'[i] # syncs[i] /\ syncs'[i].pc \in {"fetch", "json", "text"}) =>
                   UNCHANGED <<keys, employeeId>>
             /\ (syncs[i].pc = "json" /\ syncs'[i].pc = "save") =>
                   /\ keys' = DataKeys(syncs'[i].data)
                   /\ employeeId' = syncs'[i].data.employeeId
                   /\ storageQ' # <<>>]_vars

\* A generateOfflineQR call that began and returned while the sync awaited
\* its save: the token is signed with the new key, the persisted record still
\* holds the old one, and hasValidKeys() has returned true since.
C12_Witness ==
    /\ syncs[1].pc = "save"
    /\ mintCall.syncPcs[1] = "save"
    /\ MintedToken
    /\ mint.validKey = <<KeyB>>
    /\ stored = JSONStringifyRecord(OldRecord)
    /\ polled

---------------------------------------------------------------------------
(* C13 *)

\* The getItem of loadFromStorage completes in this step.
LoadStep ==
    /\ storageQ # <<>>
    /\ Head(storageQ).op = "getItem"
    /\ storageQ' = Tail(storageQ)

\* C13: when the load of a fresh instance completes on the record that a
\* completed saveToStorage wrote for bundle b, the instance holds b: the same
\* key sequence, employeeId, deviceKey and lastSync.
C13_RoundTrip ==
    [][LoadStep =>
          \A b \in Bundles :
              stored = JSONStringifyRecord(DataToSave(b[1], b[2], b[3], b[4])) =>
                  /\ keys' = b[1]
                  /\ employeeId' = b[2]
                  /\ deviceKey' = b[3]
                  /\ lastSync' = b[4]]_vars

\* A second instance has loaded what the first saved after setDeviceKey: two
\* keys, the first without hourIndex, both identity fields, a lastSync.
C13_Witness ==
    /\ instance = 2
    /\ storageQ = <<>>
    /\ calls < MaxCalls
    /\ keys = <<KeyC, KeyA>>
    /\ employeeId = "E2"
    /\ deviceKey = "D2"
    /\ lastSync = 2

---------------------------------------------------------------------------
(* C14 *)

\* C14: once a clearStorage call has completed (and no setter or sync has
\* been called), keys, employeeId and deviceKey are empty, lastSync is 0, no
\* record is persisted, and hasValidKeys() is false.
C14_Cleared ==
    clearCall = "resolved" =>
        /\ keys = <<>>
        /\ employeeId = ""
        /\ deviceKey = ""
        /\ lastSync = 0
        /\ stored = NoItem
        /\ ~HasValidKeys

---------------------------------------------------------------------------
(* C15 *)

\* C15: no call on the generator ends by throwing or rejecting; a storage
\* failure during clearStorage included.
C15_NoRejection == clearCall # "rejected"

---------------------------------------------------------------------------
(* C16 *)

\* The setItem of a saveToStorage completes in this step without having
\* written its record: the write failed.
FailedSaveStep ==
    /\ storageQ # <<>>
    /\ Head(storageQ).op = "setItem"
    /\ storageQ' = Tail(storageQ)
    /\ stored' # Head(storageQ).value

\* C16: a save that fails leaves keys, employeeId, deviceKey and lastSync in
\* memory as the setter or the sync wrote them, and the syncKeys call that
\* awaits it still returns true; a load either assigns the bundle of a record
\* that parses or, when it fails or the record is absent or unparseable,
\* leaves the in-memory bundle as it is: empty, when no call was made before.
C16_StorageFailureTolerated ==
    [][/\ FailedSaveStep =>
             /\ UNCHANGED bundle
             /\ Head(storageQ).awaiter = "sync" =>
                   /\ syncs'[Head(storageQ).slot].pc = "done"
                   /\ syncs'[Head(storageQ).slot].result
       /\ LoadStep =>
             \/ UNCHANGED bundle
             \/ stored.kind = "json" /\ bundle' = LoadedBundle(stored)
       /\ (LoadStep /\ stored.kind # "json" /\ calls = MaxCalls) =>
             /\ keys' = <<>>
             /\ employeeId' = ""
             /\ deviceKey' = ""
             /\ lastSync' = 0]_vars

\* The save of a successful sync has failed: the call returned true, the
\* persisted record is still the old one, and a generateOfflineQR call that
\* began afterwards signed its token with the new key held in memory.
C16_Witness ==
    /\ syncs[1].pc = "done"
    /\ syncs[1].result
    /\ storageQ = <<>>
    /\ stored = JSONStringifyRecord(OldRecord)
    /\ keys = <<KeyB>>
    /\ mintCall.syncPcs[1] = "done"
    /\ MintedToken
    /\ mint.validKey = <<KeyB>>

---------------------------------------------------------------------------
(* C17 *)

\* A getStatus() call returns in this step.
GetStatusStep == status' # status /\ status' # <<>>

\* C17: the snapshot a getStatus() call returns has totalKeys the number of
\* stored keys, validKeys the number of stored keys whose window contains the
\* time of the call, hasEmployeeId and hasDeviceKey the non-emptiness of the
\* two fields, and isReady true iff validKeys >= 1 and hasEmployeeId and
\* hasDeviceKey, also when the clock passes a validFrom or validTo instant
\* during the call.
C17_StatusConsistent ==
    [][GetStatusStep =>
          LET snapshot == status'[1]
          IN /\ snapshot.totalKeys = Len(keys)
             /\ snapshot.validKeys = Cardinality(Covering(keys, now))
             /\ snapshot.hasEmployeeId = (employeeId # "")
             /\ snapshot.hasDeviceKey = (deviceKey # "")
             /\ snapshot.isReady <=>
                    (snapshot.validKeys >= 1 /\ snapshot.hasEmployeeId
                     /\ snapshot.hasDeviceKey)]_vars

---------------------------------------------------------------------------
(* C18 *)

\* The save that the step issues is the last pending request and is a setItem
\* of the record of the bundle as it is after the step.
SavesNewBundle ==
    /\ storageQ' # <<>>
    /\ SubSeq(storageQ', 1, Len(storageQ') - 1) = storageQ
    /\ storageQ'[Len(storageQ')].op = "setItem"
    /\ storageQ'[Len(storageQ')].value =
           JSONStringifyRecord(DataToSave(keys', employeeId', deviceKey', lastSync'))

\* C18: setEmployeeId(id) makes employeeId equal to id, the empty string
\* included, and leaves keys, deviceKey and lastSync as they were;
\* setDeviceKey(k) makes deviceKey equal to k and leaves keys, employeeId and
\* lastSync as they were; each issues, before it returns, the save of the
\* bundle as it is right after the update, and neither touches the persisted
\* record itself.  Every step that issues a save nobody awaits is of this kind.
C18_SetterFrame ==
    [][/\ \A id \in EmployeeIds :
             SetEmployeeId(id) =>
                 /\ employeeId' = id
                 /\ UNCHANGED <<keys, deviceKey, lastSync, stored>>
                 /\ SavesNewBundle
       /\ \A k \in DeviceKeys :
             SetDeviceKey(k) =>
                 /\ deviceKey' = k
                 /\ UNCHANGED <<keys, employeeId, lastSync, stored>>
                 /\ SavesNewBundle
       /\ (Len(storageQ') > Len(storageQ) /\ storageQ'[Len(storageQ')].awaiter = "none") =>
             /\ UNCHANGED <<keys, lastSync, stored>>
             /\ employeeId' = employeeId \/ deviceKey' = deviceKey
             /\ SavesNewBundle]_vars

\* setEmployeeId("") has emptied the id the load had restored: the key, the
\* device key and lastSync of the record are still in memory, and the save of
\* the bundle with the empty id is pending behind nothing else.
C18_Witness ==
    /\ keys = <<KeyA>>
    /\ employeeId = ""
    /\ deviceKey = "D1"
    /\ stored = JSONStringifyRecord(OldRecord)
    /\ storageQ = <<SaveRequest(<<KeyA>>, "", "D1", 0, "none", 0)>>

---------------------------------------------------------------------------
(* C19 *)

\* C19: a hasValidKeys() or getStatus() call changes none of keys,
\* employeeId, deviceKey, lastSync, leaves the persisted record alone and
\* issues no storage request and no network request.
C19_ReadersPure ==
    [][(Poll \/ (\E d \in 0..1 : GetStatusCall(d)) \/ polled' # polled \/ GetStatusStep) =>
          /\ UNCHANGED store
          /\ UNCHANGED syncs]_vars

\* Both readers have run on a store whose only key has expired: hasValidKeys()
\* returned true while it was valid, getStatus() counts it as stored and not
\* valid, and it is still in memory.
C19_Witness ==
    /\ polled
    /\ status # <<>>
    /\ status[1].totalKeys = 1
    /\ status[1].validKeys = 0
    /\ keys = <<KeyA>>
    /\ storageQ = <<>>

---------------------------------------------------------------------------
(* C20 *)

\* C20: every minted token decodes to the fields employeeId, deviceKey, type,
\* timestamp, nonce, expiry, signature, in that order and no others; type is
\* the action type the call was given; signature is the digest of the secret
\* of the selected key followed by the serialization of the first six fields
\* in that order.
C20_TokenShape ==
    MintedToken =>
        LET tok == DecodedToken
        IN /\ FieldNames(tok) = <<"employeeId", "deviceKey", "type", "timestamp",
                                  "nonce", "expiry", "signature">>
           /\ Field(tok, "type") = mint.type
           /\ Field(tok, "signature") =
                  SHA256Hex(<<mint.validKey[1].key>>
                            \o JSONStringifyObject(SubSeq(tok, 1, 6)))

\* A TIME_OUT token with the second nonce, signed with the second key.
C20_Witness ==
    /\ MintedToken
    /\ mint.type = "TIME_OUT"
    /\ Field(DecodedToken, "nonce") = "n2"
    /\ mint.validKey = <<KeyB>>
    /\ Len(mintCall.keys) = 2

---------------------------------------------------------------------------
(* C21 *)

\* C21: the employeeId and deviceKey of a minted token and the secret under
\* which it is signed are those the store held when the call captured now
\* and made its checks, whatever ran while the call was suspended.
C21_OneSnapshot ==
    MintedToken =>
        LET tok == DecodedToken
            ks == mintCall.keys
        IN /\ Field(tok, "employeeId") = mintCall.employeeId
           /\ Field(tok, "deviceKey") = mintCall.deviceKey
           /\ Field(tok, "signature") =
                  SignatureUnder(ks[FirstCovering(ks, mintCall.now)], tok)

---------------------------------------------------------------------------
(* C22 *)

\* C22: the employeeId and the deviceKey of every minted token are non-empty.
C22_IdentityInToken ==
    MintedToken =>
        /\ Field(DecodedToken, "employeeId") # ""
        /\ Field(DecodedToken, "deviceKey") # ""

---------------------------------------------------------------------------
(* C23 *)

\* C23: when a setter, a successful sync or clearStorage has taken effect
\* before the load of the constructor completes (its storage request is
\* queued behind the getItem), the completion of the load leaves keys,
\* employeeId, deviceKey and lastSync as that operation wrote them.
C23_LoadKeepsNewer ==
    [][(LoadStep /\ Len(storageQ) > 1) => UNCHANGED bundle]_vars

---------------------------------------------------------------------------
(* C24 *)

\* C24: when two overlapping syncKeys calls have both returned true and
\* nothing is pending, the store holds the keys, employeeId and lastSync of
\* the response to the call that was started later (call 2).
C24_LaterSyncWins ==
    (/\ syncs[1].pc = "done" /\ syncs[1].result
     /\ syncs[2].pc = "done" /\ syncs[2].result
     /\ storageQ = <<>>) =>
        /\ keys = DataKeys(syncs[2].data)
        /\ employeeId = syncs[2].data.employeeId
        /\ syncs[2].data.syncTimestamp # 0 => lastSync = syncs[2].data.syncTimestamp

---------------------------------------------------------------------------
(* C25 *)

\* C25: whenever no storage request is pending, the in-memory bundle is the
\* one the persisted record holds, or is empty when no record that parses is
\* persisted.
C25_PersistedAgrees ==
    storageQ = <<>> =>
        IF stored.kind = "json"
        THEN bundle = LoadedBundle(stored)
        ELSE bundle = <<<<>>, "", "", 0>>

---------------------------------------------------------------------------
(* The attendance screen and the auth context *)

\* The interval of the QR expiry timer and the lifetime the screen gives a
\* displayed QR, in milliseconds.
TIMER_MS == 1000

SCREEN_QR_MS == 30000

MS_PER_SECOND == 1000

\* At most MaxClears clearQR calls are in flight at a time.
MaxClears == 1

\* Math.max(0, Math.ceil((qrExpiry - t) / 1000))
Remaining(qrExpiry, t) ==
    IF qrExpiry - t <= 0 THEN 0
    ELSE (qrExpiry - t + MS_PER_SECOND - 1) \div MS_PER_SECOND

\* currentQR is truthy: the screen renders the QR container.
Displayed == screen.mounted /\ ~screen.currentQR.isNull

\* AuthProvider.login and completeLogin: token, deviceKey and user are set.
Login(u) ==
    /\ screen.session = ""
    /\ screen' = [screen EXCEPT !.session = u]
    /\ UNCHANGED <<instance, status, now, keys, employeeId, deviceKey, lastSync, stored,
                   storageQ, syncs, mint, clearCall, polled, mintCall, justSetDeviceKey,
                   calls>>

\* AuthProvider.logout: the three SecureStore items are deleted, then token,
\* deviceKey and user are set to null; the navigator unmounts the attendance
\* screen, whose cleanup calls allowScreenCaptureAsync and clears the timer.
\* The generator is not called.  Taken while no generateQR or clearQR is
\* suspended; a suspended screen syncKeys loses its component.
Logout ==
    /\ screen.session # ""
    /\ screen.mounted
    /\ screen.generateQR = "idle"
    /\ screen.shows = <<>>
    /\ screen.clears = <<>>
    /\ screen' = [screen EXCEPT !.session = "", !.loggedOut = screen.session,
                                !.mounted = FALSE, !.syncing = FALSE,
                                !.capture = "allowed"]
    /\ UNCHANGED <<instance, status, now, keys, employeeId, deviceKey, lastSync, stored,
                   storageQ, syncs, mint, clearCall, polled, mintCall, justSetDeviceKey,
                   calls>>

\* The attendance screen mounts and its setup effect runs: setEmployeeId,
\* setDeviceKey (each queues a save of the fields as they are at its call),
\* syncKeys() up to its fetch, then checkKeysAvailability().
SetupEffect ==
    /\ screen.session # ""
    /\ ~screen.mounted
    /\ syncs[1].pc \in {"idle", "done"}
    /\ CountCall
    /\ LET id == screen.session
           dk == DeviceKeyOf(screen.session)
       IN /\ employeeId' = id
          /\ deviceKey' = dk
          /\ storageQ' = storageQ \o
                 <<SaveRequest(keys, id, deviceKey, lastSync, "none", 0),
                   SaveRequest(keys, id, dk, lastSync, "none", 0)>>
    /\ syncs' = [syncs EXCEPT ![1] = [IdleSync EXCEPT !.pc = "fetch"]]
    /\ NotStorageOnly
    /\ UNCHANGED <<instance, now, keys, lastSync, stored, mint, clearCall, polled>>
    /\ status' = <<GetStatus(HasValidKeys')>>
    /\ screen' = [session |-> screen.session, loggedOut |-> screen.loggedOut,
                  capture |-> screen.capture]
                 @@ [FreshState EXCEPT !.mounted = TRUE, !.syncing = TRUE,
                                       !.keysAvailable = HasValidKeys']

\* The screen's syncKeys resumes after qrGenerator.syncKeys returned: on
\* success checkKeysAvailability(), in either case setSyncing(false).
ScreenSyncResume ==
    /\ screen.mounted
    /\ screen.syncing
    /\ syncs[1].pc = "done"
    /\ screen' = [screen EXCEPT !.syncing = FALSE,
                                !.keysAvailable = IF syncs[1].result THEN HasValidKeys
                                                  ELSE screen.keysAvailable]
    /\ status' = IF syncs[1].result THEN <<GetStatus(HasValidKeys)>> ELSE status
    /\ UNCHANGED <<instance, now, keys, employeeId, deviceKey, lastSync, stored, storageQ,
                   syncs, mint, clearCall, polled, mintCall, justSetDeviceKey, calls>>

\* s without its i-th element.
Without(s, i) == SubSeq(s, 1, i - 1) \o SubSeq(s, i + 1, Len(s))

\* An action button is pressed (rendered while currentQR is null, enabled
\* while keysAvailable): generateQR(type) up to its first await.  hasValidKeys
\* reads the clock, generateOfflineQR reads it again d later.  One call awaits
\* the generator at a time.
GenerateQR(type, d) ==
    /\ screen.mounted
    /\ screen.currentQR.isNull
    /\ screen.keysAvailable
    /\ screen.generateQR = "idle"
    /\ polled' = HasValidKeys
    /\ IF ~HasValidKeys
       THEN /\ d = 0
            /\ screen' = [screen EXCEPT !.checked = "false", !.got = "none"]
            /\ UNCHANGED <<now, mint, mintCall, justSetDeviceKey, calls>>
       ELSE /\ now + d <= MaxTime
            /\ now' = now + d
            /\ GenerateOfflineQRAt(type, now + d, TRUE)
            /\ screen' = [screen EXCEPT !.checked = "true", !.got = "none",
                                        !.generateQR = "mint", !.type = type]
    /\ UNCHANGED <<instance, status, keys, employeeId, deviceKey, lastSync, stored,
                   storageQ, syncs, clearCall>>

\* generateOfflineQR has returned and generateQR resumes: with a token it calls
\* preventScreenCaptureAsync, with null it raises the alert.
GenerateQRResume ==
    /\ screen.generateQR = "mint"
    /\ mint.pc = "done"
    /\ screen' = IF mint.result.isNull
                 THEN [screen EXCEPT !.generateQR = "idle", !.got = "null"]
                 ELSE [screen EXCEPT !.generateQR = "idle", !.got = "token",
                                     !.shows = Append(screen.shows,
                                                      [pc |-> "prevent",
                                                       qrData |-> mint.result,
                                                       type |-> screen.type])]
    /\ UNCHANGED <<instance, status, now, keys, employeeId, deviceKey, lastSync, stored,
                   storageQ, syncs, mint, clearCall, polled, mintCall, justSetDeviceKey,
                   calls>>

\* The platform answers a preventScreenCaptureAsync: capture is prevented and
\* the promise resolves, or the promise rejects and the catch block alerts.
PreventResolve(i, ok) ==
    /\ i \in DOMAIN screen.shows
    /\ screen.shows[i].pc = "prevent"
    /\ screen' = IF ok
                 THEN [screen EXCEPT !.capture = "prevented",
                                     !.shows[i].pc = "prevented"]
                 ELSE [screen EXCEPT !.shows = Without(screen.shows, i)]
    /\ UNCHANGED <<instance, status, now, keys, employeeId, deviceKey, lastSync, stored,
                   storageQ, syncs, mint, clearCall, polled, mintCall, justSetDeviceKey,
                   calls>>

\* A generateQR resumes after that await: setCurrentQR, setQRType, setQRExpiry.
DisplayQR(i) ==
    /\ i \in DOMAIN screen.shows
    /\ screen.shows[i].pc = "prevented"
    /\ screen' = [screen EXCEPT !.currentQR = screen.shows[i].qrData,
                                !.qrType = screen.shows[i].type,
                                !.qrExpiry = now + SCREEN_QR_MS,
                                !.shows = Without(screen.shows, i)]
    /\ UNCHANGED <<instance, status, now, keys, employeeId, deviceKey, lastSync, stored,
                   storageQ, syncs, mint, clearCall, polled, mintCall, justSetDeviceKey,
                   calls>>

\* clearQR up to its await, called by the timer or by the Cancel button.
ClearQRCall(s, by) ==
    [s EXCEPT !.clears = Append(s.clears, [pc |-> "allow", by |-> by])]

\* The Cancel button of the QR container is pressed.
CancelPress ==
    /\ Displayed
    /\ Len(screen.clears) < MaxClears
    /\ screen' = ClearQRCall(screen, "cancel")
    /\ UNCHANGED <<instance, status, now, keys, employeeId, deviceKey, lastSync, stored,
                   storageQ, syncs, mint, clearCall, polled, mintCall, justSetDeviceKey,
                   calls>>

\* Mutant: the timer counts down and never calls clearQR.
TimerFire_NoClear ==
    /\ Displayed
    /\ screen.qrExpiry # 0
    /\ now < screen.qrExpiry
    /\ now' = now + TIMER_MS
    /\ screen' = [screen EXCEPT !.timeLeft = Remaining(screen.qrExpiry, now')]
    /\ UNCHANGED <<instance, status, keys, employeeId, deviceKey, lastSync, stored,
                   storageQ, syncs, mint, clearCall, polled, mintCall, justSetDeviceKey,
                   calls>>

\* The interval of the expiry effect fires a second later: setTimeLeft, and
\* clearQR() once nothing remains.  Firings after the deadline repeat that one.
TimerFire ==
    /\ Displayed
    /\ screen.qrExpiry # 0
    /\ now < screen.qrExpiry
    /\ now' = now + TIMER_MS
    /\ LET remaining == Remaining(screen.qrExpiry, now')
           s == [screen EXCEPT !.timeLeft = remaining]
       IN /\ remaining = 0 => Len(screen.clears) < MaxClears
          /\ screen' = IF remaining = 0 THEN ClearQRCall(s, "timer") ELSE s
    /\ UNCHANGED <<instance, status, keys, employeeId, deviceKey, lastSync, stored,
                   storageQ, syncs, mint, clearCall, polled, mintCall, justSetDeviceKey,
                   calls>>

\* The platform answers an allowScreenCaptureAsync: capture is allowed again.
AllowResolve(i) ==
    /\ i \in DOMAIN screen.clears
    /\ screen.clears[i].pc = "allow"
    /\ screen' = [screen EXCEPT !.capture = "allowed", !.clears[i].pc = "allowed"]
    /\ UNCHANGED <<instance, status, now, keys, employeeId, deviceKey, lastSync, stored,
                   storageQ, syncs, mint, clearCall, polled, mintCall, justSetDeviceKey,
                   calls>>

\* A clearQR resumes after the await: setCurrentQR(null), setQRType(null),
\* setQRExpiry(null), setTimeLeft(0).
ClearQRResume(i) ==
    /\ i \in DOMAIN screen.clears
    /\ screen.clears[i].pc = "allowed"
    /\ screen' = [screen EXCEPT !.currentQR = Null, !.qrType = "", !.qrExpiry = 0,
                                !.timeLeft = 0,
                                !.clears = Without(screen.clears, i),
                                !.leftBy = IF screen.currentQR.isNull THEN screen.leftBy
                                           ELSE screen.clears[i].by]
    /\ UNCHANGED <<instance, status, now, keys, employeeId, deviceKey, lastSync, stored,
                   storageQ, syncs, mint, clearCall, polled, mintCall, justSetDeviceKey,
                   calls>>

\* Sessions on an offline device start as the application does: the stored
\* session is restored, the generator's load is in flight.
InitSession == InitWith(MaxRaceCalls)

\* The attendance screen of an offline device once it is set up: the generator
\* has loaded the record of the earlier run, the setup effect has run for user
\* E1 and its saves are served, the fetch of its sync stays unanswered, the
\* action buttons are enabled.
InitScreen ==
    /\ now = 0
    /\ keys = <<KeyA>>
    /\ employeeId = "E1"
    /\ deviceKey = "D1"
    /\ lastSync = 0
    /\ stored = JSONStringifyRecord(OldRecord)
    /\ storageQ = <<>>
    /\ syncs = <<[IdleSync EXCEPT !.pc = "fetch"]>>
    /\ mint = IdleMint
    /\ clearCall = "idle"
    /\ polled = FALSE
    /\ mintCall = NoMintCall
    /\ justSetDeviceKey = FALSE
    /\ calls = MaxCalls
    /\ instance = 1
    /\ status = <<GetStatus(TRUE)>>
    /\ screen = [IdleScreen EXCEPT !.mounted = TRUE, !.syncing = TRUE,
                                   !.keysAvailable = TRUE]

\* The screen's handlers are the only callers of the generator; the session
\* stays.  The screen does not look into the token: one nonce value is drawn.
NextScreen ==
    \/ Tick
    \/ \E type \in ActionTypes, d \in 0..1 : GenerateQR(type, d)
    \/ \E nonce \in {"n1"} : MintNonce(nonce)
    \/ MintDigest
    \/ GenerateQRResume
    \/ \E i \in DOMAIN screen.shows, ok \in BOOLEAN : PreventResolve(i, ok)
    \/ \E i \in DOMAIN screen.shows : DisplayQR(i)
    \/ CancelPress
    \/ TimerFire
    \/ \E i \in DOMAIN screen.clears : AllowResolve(i)
    \/ \E i \in DOMAIN screen.clears : ClearQRResume(i)

SpecScreen == InitScreen /\ [][NextScreen]_vars

\* The same screen while its interval keeps firing, the platform answers
\* allowScreenCaptureAsync and the suspended clearQR calls are resumed.
SpecScreenLive ==
    /\ InitScreen
    /\ [][NextScreen]_vars
    /\ WF_vars(TimerFire)
    /\ WF_vars(\E i \in DOMAIN screen.clears : AllowResolve(i))
    /\ WF_vars(\E i \in DOMAIN screen.clears : ClearQRResume(i))

\* Sessions on an offline device: users log in and out around the attendance
\* screen, whose QR is left by the Cancel button.
NextSession ==
    \/ Tick
    \/ \E u \in Users : Login(u)
    \/ Logout
    \/ SetupEffect
    \/ SyncFetchResolve(1, FALSE)
    \/ SyncFail(1)
    \/ ScreenSyncResume
    \/ \E type \in ActionTypes, d \in 0..1 : GenerateQR(type, d)
    \/ \E nonce \in Nonces : MintNonce(nonce)
    \/ MintDigest
    \/ GenerateQRResume
    \/ \E i \in DOMAIN screen.shows, ok \in BOOLEAN : PreventResolve(i, ok)
    \/ \E i \in DOMAIN screen.shows : DisplayQR(i)
    \/ CancelPress
    \/ \E i \in DOMAIN screen.clears : AllowResolve(i)
    \/ \E i \in DOMAIN screen.clears : ClearQRResume(i)
    \/ StorageStep(TRUE)

SpecSession == InitSession /\ [][NextSession]_vars

\* C26: after logout completes, the generator holds no keys, employee id or
\* device key, in memory and (once the storage requests are served) in the
\* persisted record, and hasValidKeys() is false.
C26_LogoutClears ==
    (screen.session = "" /\ screen.loggedOut # "") =>
        /\ keys = <<>>
        /\ employeeId = ""
        /\ deviceKey = ""
        /\ ~HasValidKeys
        /\ storageQ = <<>> => stored = NoItem

\* The two states of the screen's token lifecycle.
TokenActive == ~screen.currentQR.isNull

Idle == screen.currentQR.isNull

\* generateQR resumes with the null result of generateOfflineQR.
NullMintStep ==
    /\ screen.generateQR = "mint"
    /\ screen'.generateQR # "mint"
    /\ mint.result.isNull

\* generateQR found hasValidKeys() false.
FalseCheckStep ==
    /\ screen.generateQR = "idle"
    /\ screen.checked # "false"
    /\ screen'.checked = "false"

\* A generateQR call got a token and goes on to display it.
NewShow == Len(screen'.shows) > Len(screen.shows)

\* C27: the mounted screen changes currentQR only from null to a token (IDLE to
\* TOKEN_ACTIVE) and from a token to null (TOKEN_ACTIVE to IDLE); it enters
\* TOKEN_ACTIVE only when a generateQR resumes with the non-null token that a
\* generateOfflineQR call returned after a true hasValidKeys() check; it
\* leaves TOKEN_ACTIVE only when a clearQR called by the expiry timer or the
\* Cancel button resumes; a null mint result or a false hasValidKeys() finds
\* and leaves the screen in IDLE.
C27_Lifecycle ==
    [][/\ NewShow =>
            /\ screen.checked = "true"
            /\ mintCall.polled
            /\ mint.pc = "done"
            /\ ~mint.result.isNull
            /\ screen'.shows[Len(screen'.shows)].qrData = mint.result
       /\ (Idle /\ TokenActive') =>
            \E i \in DOMAIN screen.shows :
                /\ screen.shows[i].pc = "prevented"
                /\ screen'.currentQR = screen.shows[i].qrData
       /\ (TokenActive /\ TokenActive') => screen'.currentQR = screen.currentQR
       /\ (TokenActive /\ Idle') =>
            \E i \in DOMAIN screen.clears :
                /\ screen.clears[i].pc = "allowed"
                /\ screen.clears[i].by \in {"timer", "cancel"}
       /\ NullMintStep =>
            /\ Idle
            /\ screen' = [screen EXCEPT !.generateQR = "idle", !.got = "null"]
       /\ FalseCheckStep =>
            /\ Idle
            /\ screen' = [screen EXCEPT !.checked = "false", !.got = "none"]
            /\ UNCHANGED mint]_vars

\* The interval fires.
TimerStep == now' = now + TIMER_MS

\* A clearQR called by the timer is in flight.
TimerClear(s) == \E i \in DOMAIN s.clears : s.clears[i].by = "timer"

C29_DeadlineIsTokenExpiry ==
    TokenActive => screen.qrExpiry = Field(Decode(screen.currentQR), "expiry")

\* C30: whenever a QR is displayed on the attendance screen, screen capture is
\* prevented.
C30_CapturePrevented ==
    Displayed => screen.capture = "prevented"

====
